---- MODULE Spec2Model ----
(***************************************************************************)
(* Controller firmware of TanskiV/ja485_2: persisted interval              *)
(* configuration with provenance, sampling, and the scheduled / on-demand  *)
(* push of readings to a server under one mutex.  The sensor firmware of   *)
(* the same repository (display and server phases of its loop, cloud       *)
(* functions) is modelled in the record sensor.                            *)
(*                                                                         *)
(* Interval values are C floats measured in minutes.  A float is modelled  *)
(* as a record [nan, v]: nan tells a NaN, v is the value in units of       *)
(* 1/100000 minute (0.1 min = 10000, 1e-4 min = 10).  Every comparison     *)
(* with a NaN operand is false, as in IEEE 754.                            *)
(***************************************************************************)
EXTENDS Integers, Sequences, FiniteSets, TLC

\* ----- bounds of the model ------------------------------------------------
MaxTime == 3
MaxBoots == 2
MaxPushes == 2
MaxSamples == 3
MaxElapse == 1
\* the clock at power-up, and the seconds one Elapse step lets pass
StartTime == 600
PushTick == 300

\* ----- program constants (units of 1/100000 minute) -----------------------
MinInterval == 10000
MaxInterval == 6000000
DefaultDisplay == 100000
DefaultServer == 500000
Epsilon == 10
HalfWord == 65536

\* ----- floats ---------------------------------------------------------------
NaN == [nan |-> TRUE, v |-> 0]
Flt(x) == [nan |-> FALSE, v |-> x]
FLess(a, b) == ~a.nan /\ ~b.nan /\ a.v < b.v
FGreater(a, b) == ~a.nan /\ ~b.nan /\ a.v > b.v
\* fabs(a - b): NaN when either operand is NaN
FAbsDiff(a, b) ==
    IF a.nan \/ b.nan THEN NaN
    ELSE Flt(IF a.v >= b.v THEN a.v - b.v ELSE b.v - a.v)

\* ----- uint32_t as two 16-bit halves (wraps at 2^32) ----------------------
U32(h, l) == [hi |-> h, lo |-> l]

\* the count left as it was
Inc32_same(x) == x

Inc32(x) ==
    IF x.lo + 1 < HalfWord THEN U32(x.hi, x.lo + 1)
    ELSE IF x.hi + 1 < HalfWord THEN U32(x.hi + 1, 0)
    ELSE U32(0, 0)

\* ----- persisted record ------------------------------------------------------
PersistentConfig(d, s, b) ==
    [display_interval |-> d, server_interval |-> s, boot_count |-> b]

\* An EEPROM that was never written reads as 0xFF bytes: both floats are
\* the bit pattern 0xFFFFFFFF (a NaN) and the counter is 0xFFFFFFFF.
ErasedRecord == PersistentConfig(NaN, NaN, U32(HalfWord - 1, HalfWord - 1))
ZeroRecord == PersistentConfig(Flt(0), Flt(0), U32(0, 0))
\* display 0.0 and server 999.0 minutes
InvalidRecord == PersistentConfig(Flt(0), Flt(99900000), U32(0, 7))
\* display 2.5 and server 10.0 minutes
ValidRecord == PersistentConfig(Flt(250000), Flt(1000000), U32(0, 3))
BootRecords == {ErasedRecord, ZeroRecord, InvalidRecord, ValidRecord}

\* Arguments of the set-interval commands: NaN, 0.05, 0.09995, 0.1,
\* 0.10005 and 2.5 minutes.
SetInputs ==
    {NaN, Flt(5000), Flt(9995), Flt(10000), Flt(10005), Flt(250000)}

VARIABLES
    eeprom,              \* the record stored at EEPROM_ADDR
    persistent,          \* PersistentConfig persistent
    displayIntervalCfg,  \* ConfigParam displayIntervalCfg
    serverIntervalCfg,   \* ConfigParam serverIntervalCfg
    sendSuccessCount,
    sendFailCount,
    sampleCounter,
    sendMutex,           \* "free" or the thread that holds it
    lastServerPush,
    now,                 \* Time.now(), seconds
    pc,                  \* position of each thread
    local,               \* locals of each thread
    res,                 \* ActionResult of the last command
    configOut,           \* ConfigPayload of the last GetConfig
    published,           \* events given to Particle.publish, newest last
    loaded,              \* what EEPROM.get returned at the last boot
    call,                \* the last command other than get_config: name,
                         \* argument, time, and the value the parameter
                         \* had before it
    issued,              \* sample ids returned by GetReadings, in order
    attempts,            \* what sendReadingsToServer returned, in order
    boots,               \* process starts so far
    before,              \* the parameter as the last set command found it
    origin,              \* the record the EEPROM held at first power-up
    sensor               \* the globals of the sensor firmware

vars ==
    <<eeprom, persistent, displayIntervalCfg, serverIntervalCfg,
      sendSuccessCount, sendFailCount, sampleCounter, sendMutex,
      lastServerPush, now, pc, local, res, configOut, published, loaded,
      call, issued, attempts, boots, before, origin, sensor>>

\* ----- values ----------------------------------------------------------------
\* iso8601FromTime: the calendar day and the clock time of ts
iso8601FromTime(ts) ==
    [day |-> ts \div 86400, hour |-> (ts \div 3600) % 24,
     minute |-> (ts \div 60) % 60, second |-> ts % 60]

\* a parameter whose timestamp is taken at initialisation only
ConfigParam_unstamped(value, ts, source) ==
    [current_value |-> value,
     last_changed_unix |-> IF source = "EEPROM" THEN ts ELSE 0,
     last_changed_iso |-> iso8601FromTime(ts), last_changed_source |-> source]

ConfigParam(value, ts, source) ==
    [current_value |-> value, last_changed_unix |-> ts,
     last_changed_iso |-> iso8601FromTime(ts), last_changed_source |-> source]

\* an empty String where an iso8601 text is expected
EmptyIso == [day |-> -1, hour |-> 0, minute |-> 0, second |-> 0]
\* globals before setup(): zero-initialised
ZeroParam ==
    [current_value |-> Flt(0), last_changed_unix |-> 0,
     last_changed_iso |-> EmptyIso, last_changed_source |-> ""]

NoResult == [status |-> "", error_reason |-> "", http_status |-> "indeterminate"]
ActionResult(st, reason, http) ==
    [status |-> st, error_reason |-> reason, http_status |-> http]
NoConfig == [status |-> ""]
NoCall == [op |-> "none", arg |-> Flt(0), at |-> 0, was |-> Flt(0)]
Call(o, a, t, w) == [op |-> o, arg |-> a, at |-> t, was |-> w]
NoReading ==
    [sample_id |-> 0, server_interval |-> Flt(0), display_interval |-> Flt(0),
     unix_ts |-> 0]
NoResponse == [prefix |-> "", code |-> <<>>, sent |-> 0]
NoLocal ==
    [op |-> "", tmp |-> 0, reading |-> NoReading, response |-> NoResponse,
     httpStatus |-> 0, minutes |-> Flt(0), waited |-> 0, ended |-> ""]
Threads == {"loop", "cmd"}
\* the content of an int that was never assigned
Indeterminate == "indeterminate"

\* the sensor firmware's globals as initialised: intervals 0.1 and 30.0
\* minutes, both timers 0, the sensor values not read yet (-1.0); millis is
\* the millisecond clock, ret what the last cloud function returned and
\* publishedAt the events published, each with the tick it was published
\* in and the tick its values were read in
SensorInit ==
    [displayInterval |-> Flt(10000), serverInterval |-> Flt(3000000),
     lastDisplayTime |-> 0, lastServerTime |-> 0, millis |-> 0,
     valuesReadAt |-> -1, ret |-> 0, publishedAt |-> <<>>]

Init ==
    /\ eeprom \in BootRecords
    /\ persistent = ZeroRecord
    /\ displayIntervalCfg = ZeroParam
    /\ serverIntervalCfg = ZeroParam
    /\ sendSuccessCount = 0
    /\ sendFailCount = 0
    /\ sampleCounter = 0
    /\ sendMutex = "free"
    /\ lastServerPush = 0
    /\ now = StartTime
    /\ pc = [t \in Threads |-> IF t = "loop" THEN "boot" ELSE "idle"]
    /\ local = [t \in Threads |-> NoLocal]
    /\ res = NoResult
    /\ configOut = NoConfig
    /\ published = <<>>
    /\ loaded = ZeroRecord
    /\ call = NoCall
    /\ issued = <<>>
    /\ attempts = <<>>
    /\ boots = 0
    /\ before = ZeroParam
    /\ origin = eeprom
    /\ sensor = SensorInit

\* ----- configuration store ------------------------------------------------
\* the range test of loadPersistent and of the two setters
OutOfRange(x) == FLess(x, Flt(MinInterval)) \/ FGreater(x, Flt(MaxInterval))

\* loadPersistent, the record part: each interval outside the range is
\* replaced by its default, boot_count is taken as stored
loadPersistent(raw) ==
    PersistentConfig(
        IF OutOfRange(raw.display_interval) THEN Flt(DefaultDisplay)
        ELSE raw.display_interval,
        IF OutOfRange(raw.server_interval) THEN Flt(DefaultServer)
        ELSE raw.server_interval,
        raw.boot_count)

\* savePersistent copying the display interval only
savePersistent_displayOnly(p, display, server) ==
    [p EXCEPT !.display_interval = display.current_value]

\* savePersistent: both current values are copied into the record, which
\* is then written as a whole
savePersistent(p, display, server) ==
    [p EXCEPT !.display_interval = display.current_value,
              !.server_interval = server.current_value]

\* setup(): loadPersistent, boot_count++, EEPROM.put.  The two Time.now()
\* calls of loadPersistent may straddle a second.
setup ==
    /\ pc["loop"] = "boot"
    /\ \E d \in {0, 1} :
        LET rec == loadPersistent(eeprom)
            booted == [rec EXCEPT !.boot_count = Inc32(rec.boot_count)]
        IN /\ now + d <= StartTime + MaxTime
           /\ loaded' = eeprom
           /\ displayIntervalCfg' = ConfigParam(rec.display_interval, now, "EEPROM")
           /\ serverIntervalCfg' = ConfigParam(rec.server_interval, now + d, "EEPROM")
           /\ now' = now + d
           /\ persistent' = booted
           /\ eeprom' = booted
    /\ pc' = [pc EXCEPT !["loop"] = "idle"]
    /\ call' = Call("setup", Flt(0), now, Flt(0))
    /\ boots' = boots + 1
    /\ res' = NoResult
    /\ configOut' = NoConfig
    /\ UNCHANGED <<sendSuccessCount, sendFailCount, sampleCounter, sendMutex,
                   lastServerPush, local, published, issued, attempts,
                   before, origin, sensor>>

\* ----- configuration parameter tracker --------------------------------------
\* the duplicate test without fabs
NearlyEqual_signed(current, minutes) ==
    ~current.nan /\ ~minutes.nan /\ current.v - minutes.v < Epsilon

\* the duplicate test as an exact comparison
NearlyEqual_exact(current, minutes) ==
    ~current.nan /\ ~minutes.nan /\ current.v = minutes.v

\* the duplicate test of the setters: fabs(current - minutes) < 0.0001f
NearlyEqual(current, minutes) == FLess(FAbsDiff(current, minutes), Flt(Epsilon))

\* the path a setter takes for the argument
SetPath(cfg, minutes) ==
    IF OutOfRange(minutes) THEN "out_of_range"
    ELSE IF NearlyEqual(cfg.current_value, minutes) THEN "no_change"
    ELSE "changed"

CommandReady == pc["loop"] # "boot" /\ pc["cmd"] = "idle"

\* SetDisplayInterval restarting the push schedule on a change
SetDisplayInterval_restarts(minutes) ==
    /\ CommandReady
    /\ LET path == SetPath(displayIntervalCfg, minutes) IN
        /\ call' = Call("set_display_interval", minutes, now,
                       displayIntervalCfg.current_value)
        /\ res' = IF path = "out_of_range"
                  THEN ActionResult("error", "out_of_range", Indeterminate)
                  ELSE ActionResult("ok", "", Indeterminate)
        /\ IF path = "changed"
           THEN LET cfg == ConfigParam(minutes, now, "Cloud/UI")
                    rec == savePersistent(persistent, cfg, serverIntervalCfg)
                IN /\ displayIntervalCfg' = cfg
                   /\ persistent' = rec
                   /\ eeprom' = rec
                   /\ lastServerPush' = 0
           ELSE UNCHANGED <<displayIntervalCfg, persistent, eeprom,
                            lastServerPush>>
    /\ configOut' = NoConfig
    /\ UNCHANGED <<serverIntervalCfg, sendSuccessCount, sendFailCount,
                   sampleCounter, sendMutex, now, pc, local, published,
                   loaded, issued, attempts, boots, before, origin, sensor>>

SetDisplayInterval(minutes) ==
    /\ CommandReady
    /\ LET path == SetPath(displayIntervalCfg, minutes) IN
        /\ call' = Call("set_display_interval", minutes, now,
                       displayIntervalCfg.current_value)
        /\ res' = IF path = "out_of_range"
                  THEN ActionResult("error", "out_of_range", Indeterminate)
                  ELSE ActionResult("ok", "", Indeterminate)
        /\ IF path = "changed"
           THEN LET cfg == ConfigParam(minutes, now, "Cloud/UI")
                    rec == savePersistent(persistent, cfg, serverIntervalCfg)
                IN /\ displayIntervalCfg' = cfg
                   /\ persistent' = rec
                   /\ eeprom' = rec
           ELSE UNCHANGED <<displayIntervalCfg, persistent, eeprom>>
    /\ configOut' = NoConfig
    /\ UNCHANGED <<serverIntervalCfg, sendSuccessCount, sendFailCount,
                   sampleCounter, sendMutex, lastServerPush, now, pc, local,
                   published, loaded, issued, attempts, boots, before,
                   origin, sensor>>

SetServerInterval(minutes) ==
    /\ CommandReady
    /\ LET path == SetPath(serverIntervalCfg, minutes) IN
        /\ call' = Call("set_server_interval", minutes, now,
                       serverIntervalCfg.current_value)
        /\ res' = IF path = "out_of_range"
                  THEN ActionResult("error", "out_of_range", Indeterminate)
                  ELSE ActionResult("ok", "", Indeterminate)
        /\ IF path = "changed"
           THEN LET cfg == ConfigParam(minutes, now, "Cloud/UI")
                    rec == savePersistent(persistent, displayIntervalCfg, cfg)
                IN /\ serverIntervalCfg' = cfg
                   /\ persistent' = rec
                   /\ eeprom' = rec
           ELSE UNCHANGED <<serverIntervalCfg, persistent, eeprom>>
    /\ configOut' = NoConfig
    /\ UNCHANGED <<displayIntervalCfg, sendSuccessCount, sendFailCount,
                   sampleCounter, sendMutex, lastServerPush, now, pc, local,
                   published, loaded, issued, attempts, boots, before,
                   origin, sensor>>

\* the Config struct GetConfig fills in
GetConfigPayload ==
    [status |-> "ok",
     boot_count |-> persistent.boot_count,
     send_success_count |-> sendSuccessCount,
     send_fail_count |-> sendFailCount,
     display_interval |-> displayIntervalCfg,
     server_interval |-> serverIntervalCfg]

GetConfig ==
    /\ CommandReady
    /\ configOut' = GetConfigPayload
    /\ UNCHANGED <<eeprom, persistent, displayIntervalCfg, serverIntervalCfg,
                   sendSuccessCount, sendFailCount, sampleCounter, sendMutex,
                   lastServerPush, now, pc, local, res, published, loaded,
                   call, issued, attempts, boots, before, origin, sensor>>

\* SoftReset: System.reset() restarts the process; only the EEPROM and the
\* clock survive
SoftReset ==
    /\ CommandReady
    /\ boots < MaxBoots
    /\ persistent' = ZeroRecord
    /\ displayIntervalCfg' = ZeroParam
    /\ serverIntervalCfg' = ZeroParam
    /\ sendSuccessCount' = 0
    /\ sendFailCount' = 0
    /\ sampleCounter' = 0
    /\ sendMutex' = "free"
    /\ lastServerPush' = 0
    /\ pc' = [t \in Threads |-> IF t = "loop" THEN "boot" ELSE "idle"]
    /\ local' = [t \in Threads |-> NoLocal]
    /\ res' = NoResult
    /\ configOut' = NoConfig
    /\ published' = <<>>
    /\ loaded' = ZeroRecord
    /\ call' = NoCall
    /\ issued' = <<>>
    /\ attempts' = <<>>
    /\ UNCHANGED <<eeprom, now, boots, before,
                   origin, sensor>>

\* the clock advances
Tick ==
    /\ now < StartTime + MaxTime
    /\ now' = now + 1
    /\ UNCHANGED <<eeprom, persistent, displayIntervalCfg, serverIntervalCfg,
                   sendSuccessCount, sendFailCount, sampleCounter, sendMutex,
                   lastServerPush, pc, local, res, configOut, published,
                   loaded, call, issued, attempts, boots, before,
                   origin, sensor>>


\* ----- transmission ------------------------------------------------------------
\* String::toInt on the characters of a text: the leading decimal digits
DigitValue(c) ==
    CASE c = "0" -> 0 [] c = "1" -> 1 [] c = "2" -> 2 [] c = "3" -> 3
      [] c = "4" -> 4 [] c = "5" -> 5 [] c = "6" -> 6 [] c = "7" -> 7
      [] c = "8" -> 8 [] c = "9" -> 9 [] OTHER -> -1

RECURSIVE toIntFrom(_, _)
toIntFrom(chars, acc) ==
    IF chars = <<>> \/ DigitValue(Head(chars)) < 0 THEN acc
    ELSE toIntFrom(Tail(chars), acc * 10 + DigitValue(Head(chars)))

toInt(chars) == toIntFrom(chars, 0)

\* What the server may answer once connected.  prefix holds the first nine
\* characters of the status line, code the next three, sent the status the
\* server answered with (0: nothing arrived before the wait ended).
Responses ==
    {[prefix |-> "HTTP/1.1 ", code |-> <<"2", "0", "0">>, sent |-> 200],
     [prefix |-> "HTTP/1.1 ", code |-> <<"5", "0", "3">>, sent |-> 503],
     [prefix |-> "HTTP/1.0 ", code |-> <<"5", "0", "3">>, sent |-> 503],
     [prefix |-> "", code |-> <<>>, sent |-> 0]}

\* sendReadingsToServer, the status line: httpStatus is read from a line
\* that starts with "HTTP/1.1 ", and is 0 for every other line
httpStatusOf(r) == IF r.prefix = "HTTP/1.1 " THEN toInt(r.code) ELSE 0

\* success test with the upper limit left out
IsSuccess_noUpper(h) == h >= 200

\* success whatever the status
IsSuccess_always(h) == TRUE

\* sendReadingsToServer, the value returned
IsSuccess(h) == h >= 200 /\ h < 300

\* lock() that never waits
MutexFree_always == TRUE

\* sendMutex.lock() returns only while no thread holds the mutex
MutexFree == sendMutex = "free"

\* (time_t)(current_value * 60).  The conversion of a NaN is undefined:
\* the period may come out as 0 or as a huge number.
PushPeriods(value) ==
    IF value.nan THEN {0, 2147483647} ELSE {(value.v * 60) \div 100000}

\* pushes and samples under way
Pushing(t) ==
    /\ local[t].op \in {"scheduled", "push_now"}
    /\ pc[t] \in {"lock", "read", "write", "connect", "await"}
Sampling(t) == pc[t] \in {"lock", "read", "write"}
PushBudget ==
    Len(attempts) + Cardinality({t \in Threads : Pushing(t)}) < MaxPushes
SampleBudget ==
    Len(issued) + Cardinality({t \in Threads : Sampling(t)}) < MaxSamples

\* loop(): the push is due when now - lastServerPush reaches the period
LoopCheck ==
    /\ pc["loop"] = "idle"
    /\ PushBudget /\ SampleBudget
    /\ \E period \in PushPeriods(serverIntervalCfg.current_value) :
        IF now - lastServerPush >= period
        THEN /\ lastServerPush' = now
             /\ pc' = [pc EXCEPT !["loop"] = "lock"]
             /\ local' = [local EXCEPT !["loop"].op = "scheduled"]
        ELSE UNCHANGED <<lastServerPush, pc, local>>
    /\ UNCHANGED <<eeprom, persistent, displayIntervalCfg, serverIntervalCfg,
                   sendSuccessCount, sendFailCount, sampleCounter, sendMutex,
                   now, res, configOut, published, loaded, call, issued,
                   attempts, boots, before,
                   origin, sensor>>

\* PushNow() stamping the last-push time as loop() does
PushNow_stamps ==
    /\ CommandReady
    /\ PushBudget /\ SampleBudget
    /\ pc' = [pc EXCEPT !["cmd"] = "lock"]
    /\ local' = [local EXCEPT !["cmd"] = [NoLocal EXCEPT !.op = "push_now"]]
    /\ call' = Call("push_now", Flt(0), now, Flt(0))
    /\ res' = NoResult
    /\ configOut' = NoConfig
    /\ lastServerPush' = now
    /\ UNCHANGED <<eeprom, persistent, displayIntervalCfg, serverIntervalCfg,
                   sendSuccessCount, sendFailCount, sampleCounter, sendMutex,
                   now, published, loaded, issued, attempts, boots, before,
                   origin, sensor>>

\* PushNow() is entered
PushNow ==
    /\ CommandReady
    /\ PushBudget /\ SampleBudget
    /\ pc' = [pc EXCEPT !["cmd"] = "lock"]
    /\ local' = [local EXCEPT !["cmd"] = [NoLocal EXCEPT !.op = "push_now"]]
    /\ call' = Call("push_now", Flt(0), now, Flt(0))
    /\ res' = NoResult
    /\ configOut' = NoConfig
    /\ UNCHANGED <<eeprom, persistent, displayIntervalCfg, serverIntervalCfg,
                   sendSuccessCount, sendFailCount, sampleCounter, sendMutex,
                   lastServerPush, now, published, loaded, issued, attempts,
                   boots, before,
                   origin, sensor>>

\* the get_readings command enters GetReadings()
GetReadingsCommand ==
    /\ CommandReady
    /\ SampleBudget
    /\ pc' = [pc EXCEPT !["cmd"] = "read"]
    /\ local' = [local EXCEPT !["cmd"] = [NoLocal EXCEPT !.op = "get_readings"]]
    /\ call' = Call("get_readings", Flt(0), now, Flt(0))
    /\ res' = NoResult
    /\ configOut' = NoConfig
    /\ UNCHANGED <<eeprom, persistent, displayIntervalCfg, serverIntervalCfg,
                   sendSuccessCount, sendFailCount, sampleCounter, sendMutex,
                   lastServerPush, now, published, loaded, issued, attempts,
                   boots, before,
                   origin, sensor>>

\* sendMutex.lock()
Lock(t) ==
    /\ pc[t] = "lock"
    /\ MutexFree
    /\ sendMutex' = t
    /\ pc' = [pc EXCEPT ![t] = "read"]
    /\ UNCHANGED <<eeprom, persistent, displayIntervalCfg, serverIntervalCfg,
                   sendSuccessCount, sendFailCount, sampleCounter,
                   lastServerPush, now, local, res, configOut, published,
                   loaded, call, issued, attempts, boots, before,
                   origin, sensor>>

\* GetReadings(): ++sampleCounter, the load
ReadCounter(t) ==
    /\ pc[t] = "read"
    /\ local' = [local EXCEPT ![t].tmp = sampleCounter]
    /\ pc' = [pc EXCEPT ![t] = "write"]
    /\ UNCHANGED <<eeprom, persistent, displayIntervalCfg, serverIntervalCfg,
                   sendSuccessCount, sendFailCount, sampleCounter, sendMutex,
                   lastServerPush, now, res, configOut, published, loaded,
                   call, issued, attempts, boots, before, origin, sensor>>

\* GetReadings(): ++sampleCounter, the store, and the rest of the payload
WriteCounter(t) ==
    /\ pc[t] = "write"
    /\ sampleCounter' = local[t].tmp + 1
    /\ issued' = Append(issued, local[t].tmp + 1)
    /\ IF local[t].op = "get_readings"
       THEN /\ pc' = [pc EXCEPT ![t] = "idle"]
            /\ local' = [local EXCEPT ![t] = NoLocal]
       ELSE /\ pc' = [pc EXCEPT ![t] = "connect"]
            /\ local' = [local EXCEPT ![t].reading =
                   [sample_id |-> local[t].tmp + 1,
                    server_interval |-> serverIntervalCfg.current_value,
                    display_interval |-> displayIntervalCfg.current_value,
                    unix_ts |-> now]]
    /\ UNCHANGED <<eeprom, persistent, displayIntervalCfg, serverIntervalCfg,
                   sendSuccessCount, sendFailCount, sendMutex, lastServerPush,
                   now, res, configOut, published, loaded, call, attempts,
                   boots, before,
                   origin, sensor>>

\* sendReadingsToServer: client.connect; a refused connection returns
\* false with httpStatus 0
Connect(t) ==
    /\ pc[t] = "connect"
    /\ \E connected \in BOOLEAN :
        IF connected
        THEN /\ pc' = [pc EXCEPT ![t] = "await"]
             /\ UNCHANGED <<local, attempts>>
        ELSE /\ pc' = [pc EXCEPT ![t] = "count"]
             /\ local' = [local EXCEPT ![t].httpStatus = 0,
                                       ![t].response = NoResponse]
             /\ attempts' = Append(attempts, 0)
    /\ UNCHANGED <<eeprom, persistent, displayIntervalCfg, serverIntervalCfg,
                   sendSuccessCount, sendFailCount, sampleCounter, sendMutex,
                   lastServerPush, now, res, configOut, published, loaded,
                   call, issued, boots, before,
                   origin, sensor>>

\* the wait loop of sendReadingsToServer gives up after this many milliseconds
ResponseTimeout == 5000

\* the wait loop with its time limit left out
TimedOut_never(waited) == FALSE

\* the time limit of the wait loop: millis() - start < 5000 no longer holds
TimedOut(waited) == waited >= ResponseTimeout

\* the wait loop turns (Particle.process()) while the connection stays open
\* and silent and the limit is not reached
WaitTick(t) ==
    /\ pc[t] = "await"
    /\ local[t].waited < ResponseTimeout
    /\ local' = [local EXCEPT ![t].waited = local[t].waited + ResponseTimeout]
    /\ UNCHANGED pc
    /\ UNCHANGED <<eeprom, persistent, displayIntervalCfg, serverIntervalCfg,
                   sendSuccessCount, sendFailCount, sampleCounter, sendMutex,
                   lastServerPush, now, res, configOut, published, loaded,
                   call, issued, attempts, boots, before, origin, sensor>>

\* sendReadingsToServer after the wait: the status line is read and
\* parsed, client.stop
ReadLine(t, how) ==
    /\ \E r \in Responses :
        /\ local' = [local EXCEPT ![t].httpStatus = httpStatusOf(r),
                                  ![t].response = r,
                                  ![t].ended = how]
        /\ attempts' = Append(attempts, httpStatusOf(r))
    /\ pc' = [pc EXCEPT ![t] = "count"]
    /\ UNCHANGED <<eeprom, persistent, displayIntervalCfg, serverIntervalCfg,
                   sendSuccessCount, sendFailCount, sampleCounter, sendMutex,
                   lastServerPush, now, res, configOut, published, loaded,
                   call, issued, boots, before,
                   origin, sensor>>

\* the server acts: bytes become available or the connection is closed, and
\* the wait loop ends at once
Respond(t) ==
    /\ pc[t] = "await"
    /\ ReadLine(t, "server")

\* the wait loop ends because the limit is reached; bytes that arrive late
\* are still read
Receive(t) ==
    /\ pc[t] = "await"
    /\ TimedOut(local[t].waited)
    /\ ReadLine(t, "timeout")

\* the mutex left with its holder
Unlocked_kept(t) == t

\* sendMutex.unlock()
Unlocked(t) == "free"

\* the event a push publishes
PushEvent(op, success) ==
    IF op = "push_now"
    THEN (IF success THEN "manual_ok" ELSE "manual_error")
    ELSE (IF success THEN "scheduled_ok" ELSE "scheduled_error")

\* the rest of PushNow() and of the push of loop(): one counter, the
\* event, sendMutex.unlock(), and the result of PushNow()
Count(t) ==
    /\ pc[t] = "count"
    /\ LET status == local[t].httpStatus
           success == IsSuccess(status)
       IN /\ IF success
             THEN /\ sendSuccessCount' = sendSuccessCount + 1
                  /\ UNCHANGED sendFailCount
             ELSE /\ sendFailCount' = sendFailCount + 1
                  /\ UNCHANGED sendSuccessCount
          /\ published' = Append(published, PushEvent(local[t].op, success))
          /\ IF local[t].op = "push_now"
             THEN res' = IF success THEN ActionResult("ok", "", status)
                         ELSE ActionResult("error", "send_failed", status)
             ELSE UNCHANGED res
    /\ sendMutex' = Unlocked(t)
    /\ pc' = [pc EXCEPT ![t] = "idle"]
    /\ local' = [local EXCEPT ![t] = NoLocal]
    /\ UNCHANGED <<eeprom, persistent, displayIntervalCfg, serverIntervalCfg,
                   sampleCounter, lastServerPush, now, configOut, loaded,
                   call, issued, attempts, boots, before, origin, sensor>>

\* a push period passes
Elapse ==
    /\ now + PushTick <= StartTime + MaxTime + MaxElapse * PushTick
    /\ now' = now + PushTick
    /\ UNCHANGED <<eeprom, persistent, displayIntervalCfg, serverIntervalCfg,
                   sendSuccessCount, sendFailCount, sampleCounter, sendMutex,
                   lastServerPush, pc, local, res, configOut, published,
                   loaded, call, issued, attempts, boots, before,
                   origin, sensor>>

LockStep == \E t \in Threads : Lock(t)
ReadCounterStep == \E t \in Threads : ReadCounter(t)
WriteCounterStep == \E t \in Threads : WriteCounter(t)
ConnectStep == \E t \in Threads : Connect(t)
WaitTickStep == \E t \in Threads : WaitTick(t)
RespondStep == \E t \in Threads : Respond(t)
ReceiveStep == \E t \in Threads : Receive(t)
CountStep == \E t \in Threads : Count(t)

NextPush ==
    \/ setup
    \/ LoopCheck
    \/ PushNow
    \/ GetReadingsCommand
    \/ LockStep
    \/ ReadCounterStep
    \/ WriteCounterStep
    \/ ConnectStep
    \/ WaitTickStep
    \/ RespondStep
    \/ ReceiveStep
    \/ CountStep
    \/ Elapse

SpecPush == Init /\ [][NextPush]_vars

\* a thread that can take its next step takes it: the two contexts are
\* threads of a preemptive scheduler, sendMutex.lock() returns once the mutex
\* is free, library calls return, and the millisecond clock advances. What
\* the server does (Respond) is under no obligation.
ThreadFairness(t) ==
    /\ WF_vars(Lock(t))
    /\ WF_vars(ReadCounter(t))
    /\ WF_vars(WriteCounter(t))
    /\ WF_vars(Connect(t))
    /\ WF_vars(WaitTick(t))
    /\ WF_vars(Receive(t))
    /\ WF_vars(Count(t))

\* the two kinds of push without the get_readings command and without the
\* long waits between pushes
NextPushOnly ==
    \/ setup
    \/ LoopCheck
    \/ PushNow
    \/ LockStep
    \/ ReadCounterStep
    \/ WriteCounterStep
    \/ ConnectStep
    \/ WaitTickStep
    \/ RespondStep
    \/ ReceiveStep
    \/ CountStep

SpecPushFair ==
    /\ Init /\ [][NextPushOnly]_vars
    /\ WF_vars(setup)
    /\ \A t \in Threads : ThreadFairness(t)

SetDisplay == \E minutes \in SetInputs : SetDisplayInterval(minutes)
SetServer == \E minutes \in SetInputs : SetServerInterval(minutes)

NextConfig ==
    \/ setup
    \/ SetDisplay
    \/ SetServer
    \/ GetConfig
    \/ Tick

SpecConfig == Init /\ [][NextConfig]_vars

\* ----- the claims' vocabulary -----------------------------------------------
\* x is a number of the interval [0.1, 60.0]
WithinBounds(x) == ~x.nan /\ x.v >= MinInterval /\ x.v <= MaxInterval
\* a and b are numbers less than 1e-4 apart
CloseTo(a, b) ==
    ~a.nan /\ ~b.nan /\ a.v - b.v < Epsilon /\ b.v - a.v < Epsilon
IsSet(op) == op \in {"set_display_interval", "set_server_interval"}
Booted == pc["loop"] # "boot"
\* the parameter a set command is about, as get_config reported it
Reported(op) ==
    IF op = "set_display_interval" THEN configOut.display_interval
    ELSE configOut.server_interval
ConfigState == <<displayIntervalCfg, serverIntervalCfg, persistent, eeprom>>

\* ----- C1 ---------------------------------------------------------------------
\* C1: a set-interval command with a value outside [0.1, 60.0] returns
\* "error" / "out_of_range" and leaves both parameters and the persisted
\* record as they were.
C1_OutOfRangeRejected ==
    [][\A v \in SetInputs :
        (~WithinBounds(v) /\ (SetDisplayInterval(v) \/ SetServerInterval(v)))
            => /\ res'.status = "error"
               /\ res'.error_reason = "out_of_range"
               /\ UNCHANGED ConfigState]_vars

\* ----- C2 ---------------------------------------------------------------------
\* C2 as stated: after a set-interval command with any v of [0.1, 60.0],
\* get_config reports the parameter as (v, time of the set, "Cloud/UI").
C2_SetThenGetAnyState ==
    (configOut # NoConfig /\ IsSet(call.op) /\ WithinBounds(call.arg))
        => Reported(call.op) = ConfigParam(call.arg, call.at, "Cloud/UI")

\* C2 amended: after a set-interval command with a v of [0.1, 60.0] that is
\* at least 1e-4 away from the parameter's value, get_config reports the
\* parameter as (v, time of the set, "Cloud/UI").
C2_SetThenGetChanged ==
    (/\ configOut # NoConfig
     /\ IsSet(call.op)
     /\ WithinBounds(call.arg)
     /\ ~CloseTo(call.was, call.arg))
        => Reported(call.op) = ConfigParam(call.arg, call.at, "Cloud/UI")

\* get_config after set_display_interval(2.5) one second after power-up,
\* the value having been 0.1 before
C2_Witness ==
    /\ configOut # NoConfig
    /\ call = Call("set_display_interval", Flt(250000), StartTime + 1, Flt(10000))
    /\ configOut.display_interval =
           ConfigParam(Flt(250000), StartTime + 1, "Cloud/UI")

\* ----- C3 ---------------------------------------------------------------------
\* C3 as stated: a set-interval command with a value less than 1e-4 from
\* the current one returns "ok" and changes nothing; the same command
\* given again changes nothing.
C3_NearValueOkNoOp ==
    [][\A v \in SetInputs :
        /\ (CloseTo(displayIntervalCfg.current_value, v) /\ SetDisplayInterval(v))
             => (res'.status = "ok" /\ UNCHANGED ConfigState)
        /\ (CloseTo(serverIntervalCfg.current_value, v) /\ SetServerInterval(v))
             => (res'.status = "ok" /\ UNCHANGED ConfigState)
        /\ (call = Call("set_display_interval", v, call.at, call.was)
               /\ SetDisplayInterval(v)) => UNCHANGED ConfigState
        /\ (call = Call("set_server_interval", v, call.at, call.was)
               /\ SetServerInterval(v)) => UNCHANGED ConfigState]_vars

\* C3 amended: a set-interval command with a value less than 1e-4 from the
\* current one changes nothing, and returns "ok" when the value is in
\* [0.1, 60.0] and "error" otherwise; a command with a value of
\* [0.1, 60.0] given again changes nothing.
C3_NearValueNoOp ==
    [][\A v \in SetInputs :
        /\ (CloseTo(displayIntervalCfg.current_value, v) /\ SetDisplayInterval(v))
             => /\ res'.status = IF WithinBounds(v) THEN "ok" ELSE "error"
                /\ UNCHANGED ConfigState
        /\ (CloseTo(serverIntervalCfg.current_value, v) /\ SetServerInterval(v))
             => /\ res'.status = IF WithinBounds(v) THEN "ok" ELSE "error"
                /\ UNCHANGED ConfigState
        /\ (call = Call("set_display_interval", v, call.at, call.was)
               /\ WithinBounds(v) /\ SetDisplayInterval(v))
             => UNCHANGED ConfigState
        /\ (call = Call("set_server_interval", v, call.at, call.was)
               /\ WithinBounds(v) /\ SetServerInterval(v))
             => UNCHANGED ConfigState]_vars

\* set_server_interval(0.1) was answered "ok" two seconds after power-up
\* while the value was 0.10005, set one second earlier, and the parameter
\* is as that earlier command left it
C3_Witness ==
    /\ call = Call("set_server_interval", Flt(10000), StartTime + 2, Flt(10005))
    /\ res.status = "ok"
    /\ serverIntervalCfg = ConfigParam(Flt(10005), StartTime + 1, "Cloud/UI")
    /\ eeprom.server_interval = Flt(10005)

\* ----- C6 ---------------------------------------------------------------------
\* C6: a parameter that still carries the value loaded at boot holds the
\* persisted value if that is in [0.1, 60.0], else its default (1.0 for
\* display, 5.0 for server), so it is in [0.1, 60.0].
C6_LoadReplacesOutOfRange ==
    /\ displayIntervalCfg.last_changed_source = "EEPROM"
        => /\ displayIntervalCfg.current_value =
                IF WithinBounds(loaded.display_interval)
                THEN loaded.display_interval ELSE Flt(DefaultDisplay)
           /\ WithinBounds(displayIntervalCfg.current_value)
    /\ serverIntervalCfg.last_changed_source = "EEPROM"
        => /\ serverIntervalCfg.current_value =
                IF WithinBounds(loaded.server_interval)
                THEN loaded.server_interval ELSE Flt(DefaultServer)
           /\ WithinBounds(serverIntervalCfg.current_value)

\* ----- C7 ---------------------------------------------------------------------
\* C7: after a boot from erased storage, and before any command changes
\* something, display is 1.0, server is 5.0, boot_count is 1, both send
\* counters are 0, and get_config reports boot_count 1.
C7_ErasedBootDefaults ==
    (call.op = "setup" /\ loaded = ErasedRecord)
        => /\ displayIntervalCfg.current_value = Flt(DefaultDisplay)
           /\ serverIntervalCfg.current_value = Flt(DefaultServer)
           /\ persistent.boot_count = U32(0, 1)
           /\ sendSuccessCount = 0
           /\ sendFailCount = 0
           /\ configOut # NoConfig => configOut.boot_count = U32(0, 1)

\* ----- C4 ----------------------------------------------------------------------
\* sendReadingsToServer has been entered by t and has not returned
InRoundTrip(t) == pc[t] \in {"connect", "await"}

\* C4: at most one thread is inside sendReadingsToServer, and that thread
\* holds sendMutex.
C4_NoOverlap ==
    /\ Cardinality({t \in Threads : InRoundTrip(t)}) <= 1
    /\ \A t \in Threads : InRoundTrip(t) => sendMutex = t

\* the scheduled push waits for its answer while push_now waits at lock()
C4_Witness ==
    /\ pc["loop"] = "await"
    /\ pc["cmd"] = "lock"
    /\ local["cmd"].op = "push_now"

\* ----- C5 ----------------------------------------------------------------------
\* C5: the i-th sample identifier returned since the process started is i.
C5_SampleIdsConsecutive == \A i \in 1..Len(issued) : issued[i] = i

\* ----- C8 ----------------------------------------------------------------------
\* C8: when the server answered a push_now with a status s outside
\* 200..299, the result is "error" with http_status s, send_fail_count is
\* one more and send_success_count is the same; when nothing was received
\* or the connection failed, http_status is 0.
C8_PushNowReportsStatus ==
    [][(local["cmd"].op = "push_now" /\ Count("cmd"))
        => LET s == local["cmd"].response.sent IN
           /\ (s # 0 /\ ~(s >= 200 /\ s <= 299))
                => /\ res'.status = "error"
                   /\ res'.http_status = s
                   /\ sendFailCount' = sendFailCount + 1
                   /\ sendSuccessCount' = sendSuccessCount
           /\ s = 0 => res'.http_status = 0]_vars

\* ----- C9 ----------------------------------------------------------------------
\* the pushes that were counted: all whose sendReadingsToServer returned,
\* but the one of a thread that has yet to count it
Counted ==
    IF \E t \in Threads : pc[t] = "count"
    THEN SubSeq(attempts, 1, Len(attempts) - 1)
    ELSE attempts
IsOk(status) == status >= 200 /\ status <= 299
OkEvents == {"manual_ok", "scheduled_ok"}
ErrorEvents == {"manual_error", "scheduled_error"}

C10_ValuesWithinBounds ==
    Booted => /\ WithinBounds(displayIntervalCfg.current_value)
              /\ WithinBounds(serverIntervalCfg.current_value)

\* ----- the stores of a setter, one at a time -----------------------------------
\* SetDisplayInterval and SetServerInterval take no lock: the four stores of
\* lines 206-209 and 228-231 are separate writes, and GetConfig copies both
\* structs without a lock either
SetOps == {"set_display_interval", "set_server_interval"}

ParamOf(op) ==
    IF op = "set_display_interval" THEN displayIntervalCfg
    ELSE serverIntervalCfg

\* the range test and the duplicate test; a changing call goes on to the stores
SetBegin(op, minutes) ==
    /\ CommandReady
    /\ LET path == SetPath(ParamOf(op), minutes) IN
        /\ call' = Call(op, minutes, now, ParamOf(op).current_value)
        /\ before' = ParamOf(op)
        /\ IF path = "changed"
           THEN /\ pc' = [pc EXCEPT !["cmd"] = "store_value"]
                /\ local' = [local EXCEPT !["cmd"].op = op,
                                          !["cmd"].minutes = minutes]
                /\ res' = NoResult
           ELSE /\ res' = IF path = "out_of_range"
                          THEN ActionResult("error", "out_of_range",
                                            Indeterminate)
                          ELSE ActionResult("ok", "", Indeterminate)
                /\ UNCHANGED <<pc, local>>
    /\ configOut' = NoConfig
    /\ UNCHANGED <<eeprom, persistent, displayIntervalCfg, serverIntervalCfg,
                   sendSuccessCount, sendFailCount, sampleCounter, sendMutex,
                   lastServerPush, now, published, loaded, issued, attempts,
                   boots, origin, sensor>>

\* one store of the setter running on the command thread
Store(next, cfg) ==
    /\ pc' = [pc EXCEPT !["cmd"] = next]
    /\ IF local["cmd"].op = "set_display_interval"
       THEN displayIntervalCfg' = cfg /\ UNCHANGED serverIntervalCfg
       ELSE serverIntervalCfg' = cfg /\ UNCHANGED displayIntervalCfg
    /\ UNCHANGED <<eeprom, persistent, sendSuccessCount, sendFailCount,
                   sampleCounter, sendMutex, lastServerPush, now, local, res,
                   configOut, published, loaded, call, issued, attempts,
                   boots, before,
                   origin, sensor>>

StoreValue ==
    /\ pc["cmd"] = "store_value"
    /\ LET cfg == ParamOf(local["cmd"].op)
       IN Store("store_unix",
                [cfg EXCEPT !.current_value = local["cmd"].minutes])

StoreUnix ==
    /\ pc["cmd"] = "store_unix"
    /\ LET cfg == ParamOf(local["cmd"].op)
       IN Store("store_iso", [cfg EXCEPT !.last_changed_unix = now])

StoreIso ==
    /\ pc["cmd"] = "store_iso"
    /\ LET cfg == ParamOf(local["cmd"].op)
       IN Store("store_source",
                [cfg EXCEPT !.last_changed_iso =
                                iso8601FromTime(cfg.last_changed_unix)])

StoreSource ==
    /\ pc["cmd"] = "store_source"
    /\ LET cfg == ParamOf(local["cmd"].op)
       IN Store("save", [cfg EXCEPT !.last_changed_source = "Cloud/UI"])

\* savePersistent and the return of the setter
Save ==
    /\ pc["cmd"] = "save"
    /\ LET rec == savePersistent(persistent, displayIntervalCfg,
                                 serverIntervalCfg)
       IN persistent' = rec /\ eeprom' = rec
    /\ res' = ActionResult("ok", "", Indeterminate)
    /\ pc' = [pc EXCEPT !["cmd"] = "idle"]
    /\ local' = [local EXCEPT !["cmd"] = NoLocal]
    /\ UNCHANGED <<displayIntervalCfg, serverIntervalCfg, sendSuccessCount,
                   sendFailCount, sampleCounter, sendMutex, lastServerPush,
                   now, configOut, published, loaded, call, issued, attempts,
                   boots, before,
                   origin, sensor>>

\* GetConfig called from a context other than the one running the setter
GetConfigConcurrent ==
    /\ pc["loop"] # "boot"
    /\ configOut' = GetConfigPayload
    /\ UNCHANGED <<eeprom, persistent, displayIntervalCfg, serverIntervalCfg,
                   sendSuccessCount, sendFailCount, sampleCounter, sendMutex,
                   lastServerPush, now, pc, local, res, published, loaded,
                   call, issued, attempts, boots, before, origin, sensor>>

\* the arguments tried with the stepwise setter: one below the range and two
\* inside it
StoreInputs == {Flt(5000), Flt(10000), Flt(250000)}

SetStart ==
    \E op \in SetOps : \E minutes \in StoreInputs : SetBegin(op, minutes)

NextStores ==
    \/ setup
    \/ SetStart
    \/ StoreValue
    \/ StoreUnix
    \/ StoreIso
    \/ StoreSource
    \/ Save
    \/ GetConfigConcurrent
    \/ Tick

SpecStores == Init /\ [][NextStores]_vars

\* ----- C11 --------------------------------------------------------------------
\* the triple a completed changing set leaves behind: the argument, a timestamp
\* taken during the call with its own rendering, and the source "Cloud/UI"
WholeNew(param) ==
    /\ param.current_value = call.arg
    /\ param.last_changed_unix >= call.at
    /\ param.last_changed_iso = iso8601FromTime(param.last_changed_unix)
    /\ param.last_changed_source = "Cloud/UI"

\* C11: a get_config that runs while, or after, a set-interval command runs
\* reports for that parameter either the complete triple the command found or
\* the complete triple it leaves, never a mixture of the two
C11_NoTornRead ==
    (configOut # NoConfig /\ call.op \in SetOps)
        => (Reported(call.op) = before \/ WholeNew(Reported(call.op)))

\* ----- C12 --------------------------------------------------------------------
\* thread t is at sendMutex.lock() while thread u holds the mutex
Waiting(t, u) == pc[t] = "lock" /\ sendMutex = u

\* a push_now has returned the result of a transmission of its own
PushNowReturned ==
    /\ pc["cmd"] = "idle"
    /\ call.op = "push_now"
    /\ res.status \in {"ok", "error"}
    /\ res.http_status = attempts[Len(attempts)]

\* while the other push holds the mutex the waiting one neither proceeds nor
\* returns
StaysWaiting(t, u) ==
    Waiting(t, u) => (pc'[t] = "lock" /\ (t = "cmd" => res' = NoResult))

C13_PushTerminates ==
    \A t \in Threads :
        (pc[t] \in {"connect", "await"}) ~> (pc[t] = "idle" /\ sendMutex # t)

\* a scheduled push whose wait ended at the limit, about to release the lock
C13_Witness ==
    /\ pc["loop"] = "count"
    /\ local["loop"].ended = "timeout"
    /\ local["loop"].waited >= ResponseTimeout
    /\ sendMutex = "loop"

\* ----- restarts ----------------------------------------------------------------
\* the firmware with its soft_reset command: boots, scheduled pushes and
\* get_config
NextBoot ==
    \/ setup
    \/ SoftReset
    \/ GetConfig
    \/ LoopCheck
    \/ LockStep
    \/ ReadCounterStep
    \/ WriteCounterStep
    \/ ConnectStep
    \/ WaitTickStep
    \/ RespondStep
    \/ ReceiveStep
    \/ CountStep
    \/ Tick

SpecBoot == Init /\ [][NextBoot]_vars

\* ----- C14 --------------------------------------------------------------------
\* the count c + k, for a stored count c that k increments do not carry out of
\* its low half
Plus(c, k) == [hi |-> c.hi, lo |-> c.lo + k]

CountersZero ==
    sendSuccessCount = 0 /\ sendFailCount = 0 /\ sampleCounter = 0

\* C14: after k process starts from a stored count c (an EEPROM that was
\* written before), soft_reset restarts included, the stored boot_count and
\* the one get_config reports are c + k; and the send counters and the sample
\* counter are zero when a restarted process comes up
C14_BootCountPerStart ==
    /\ []((Booted /\ origin # ErasedRecord) =>
            /\ eeprom.boot_count = Plus(origin.boot_count, boots)
            /\ persistent.boot_count = Plus(origin.boot_count, boots)
            /\ (configOut # NoConfig =>
                    configOut.boot_count = Plus(origin.boot_count, boots)))
    /\ [](~Booted => CountersZero)
    /\ [][~Booted /\ Booted' => CountersZero']_vars

\* the second start from a stored count of 3, reported by get_config, after
\* a first run that had counted a push and a sample
C14_Witness ==
    /\ origin = ValidRecord
    /\ boots = 2
    /\ Booted
    /\ configOut # NoConfig
    /\ configOut.boot_count = U32(0, 5)
    /\ CountersZero

\* ----- the sensor firmware ------------------------------------------------------
\* the variables of the controller firmware, which the sensor firmware does
\* not have
controller ==
    <<eeprom, persistent, displayIntervalCfg, serverIntervalCfg,
      sendSuccessCount, sendFailCount, sampleCounter, sendMutex,
      lastServerPush, now, pc, local, res, configOut, published, loaded,
      call, issued, attempts, boots, before, origin>>

\* String::toFloat on the characters of a command: an optional minus sign,
\* digits, and a fraction; 0 when the text does not start with a number
RECURSIVE IntPart(_, _, _)
IntPart(s, i, acc) ==
    IF i > Len(s) \/ DigitValue(s[i]) < 0 THEN [v |-> acc, next |-> i]
    ELSE IntPart(s, i + 1, acc * 10 + DigitValue(s[i]))

RECURSIVE FracPart(_, _, _, _)
FracPart(s, i, acc, scale) ==
    IF i > Len(s) \/ DigitValue(s[i]) < 0 \/ scale = 0 THEN acc
    ELSE FracPart(s, i + 1, acc + DigitValue(s[i]) * scale, scale \div 10)

toFloat(s) ==
    LET neg == Len(s) > 0 /\ s[1] = "-"
        int == IntPart(s, IF neg THEN 2 ELSE 1, 0)
        frac == IF int.next <= Len(s) /\ s[int.next] = "."
                THEN FracPart(s, int.next + 1, 0, 10000)
                ELSE 0
        mag == int.v * 100000 + frac
    IN Flt(IF neg THEN 0 - mag ELSE mag)

\* the commands sent to the two interval functions
SensorCommands ==
    {<<"0", ".", "0", "5">>, <<"1">>, <<"0">>, <<"-", "1">>, <<"a", "b", "c">>}

\* the clock values a tick can see: a few steps of 3 s, before and after the
\* 30 minutes of the default server interval
MaxShort == 1
\* the events the sensor firmware may publish
MaxPublished == 1
SensorStep == 3000
SensorLong == 1800000
SensorTimes ==
    {a * SensorStep + b * SensorLong : a \in 0..MaxShort, b \in 0..1}

\* the interval test with > in place of >=
DueMs_strict(elapsed, interval) == 5 * elapsed > 3 * interval.v

\* elapsed >= interval * 60000, elapsed in milliseconds and interval in
\* minutes
DueMs(elapsed, interval) == 5 * elapsed >= 3 * interval.v

\* the display phase without its timer update
DisplayPhase_noTimer(s, currentMillis) ==
    IF DueMs(currentMillis - s.lastDisplayTime, s.displayInterval)
    THEN [s EXCEPT !.valuesReadAt = currentMillis]
    ELSE s

\* loop(), the display phase: the three controllers are read into the globals
DisplayPhase(s, currentMillis) ==
    IF DueMs(currentMillis - s.lastDisplayTime, s.displayInterval)
    THEN [s EXCEPT !.lastDisplayTime = currentMillis,
                   !.valuesReadAt = currentMillis]
    ELSE s

\* publishReadings(): the globals are formatted and published as they are
publishReadings(s, by, ok) ==
    [s EXCEPT !.publishedAt =
        Append(@, [at |-> s.millis, readAt |-> s.valuesReadAt, by |-> by,
                   ok |-> ok])]

\* loop(), the server phase
ServerPhase(s, currentMillis, ok) ==
    IF DueMs(currentMillis - s.lastServerTime, s.serverInterval)
    THEN publishReadings([s EXCEPT !.lastServerTime = currentMillis],
                         "loop", ok)
    ELSE s

\* one pass of loop(); ok is whether Particle.publish succeeds
SensorLoop ==
    /\ Len(sensor.publishedAt) < MaxPublished
    /\ \E ok \in BOOLEAN :
        sensor' = ServerPhase(DisplayPhase(sensor, sensor.millis),
                              sensor.millis, ok)
    /\ UNCHANGED controller

\* getReadings(command): the controllers are read and the result published
getReadings ==
    /\ Len(sensor.publishedAt) < MaxPublished
    /\ \E ok \in BOOLEAN :
        sensor' = publishReadings(
                    [sensor EXCEPT !.valuesReadAt = sensor.millis,
                                   !.ret = 1],
                    "getReadings", ok)
    /\ UNCHANGED controller

setDisplayInterval(command) ==
    /\ LET interval == toFloat(command) IN
        sensor' = IF FGreater(interval, Flt(0))
                  THEN [sensor EXCEPT !.displayInterval = interval, !.ret = 1]
                  ELSE [sensor EXCEPT !.ret = -1]
    /\ UNCHANGED controller

setServerInterval(command) ==
    /\ LET interval == toFloat(command) IN
        sensor' = IF FGreater(interval, Flt(0))
                  THEN [sensor EXCEPT !.serverInterval = interval, !.ret = 1]
                  ELSE [sensor EXCEPT !.ret = -1]
    /\ UNCHANGED controller

\* millis() moves on
SensorAdvance ==
    /\ \E t \in SensorTimes :
        /\ t > sensor.millis
        /\ sensor' = [sensor EXCEPT !.millis = t]
    /\ UNCHANGED controller

SensorSetDisplay == \E command \in SensorCommands : setDisplayInterval(command)
SensorSetServer == \E command \in SensorCommands : setServerInterval(command)

NextSensor ==
    \/ SensorLoop
    \/ getReadings
    \/ SensorSetDisplay
    \/ SensorSetServer
    \/ SensorAdvance

\* the controller's variables stay as constructed
InitSensor == Init /\ eeprom = ValidRecord

SpecSensor == InitSensor /\ [][NextSensor]_vars

\* ----- C15 --------------------------------------------------------------------
\* an interval in minutes converted to the loop's unit, milliseconds
Milliseconds(interval) == (interval.v * 3) \div 5

PushDue ==
    sensor.millis - sensor.lastServerTime >= Milliseconds(sensor.serverInterval)

\* this step published from the server phase of loop()
PushFired ==
    /\ Len(sensor'.publishedAt) = Len(sensor.publishedAt) + 1
    /\ sensor'.publishedAt[Len(sensor'.publishedAt)].by = "loop"

\* C15: on every pass of the loop the push phase fires exactly when the time
\* since the last push has reached the server interval in force at that
\* pass, firing sets the last-push time to the tick time and not firing
\* leaves it alone; and an accepted set of the server interval is the value
\* in force from then on
C15_PushWhenDue ==
    /\ [][SensorLoop =>
            /\ PushDue <=> PushFired
            /\ PushFired => sensor'.lastServerTime = sensor.millis
            /\ ~PushFired => sensor'.lastServerTime = sensor.lastServerTime]_vars
    /\ [][\A command \in SensorCommands :
            (setServerInterval(command) /\ sensor'.ret = 1)
                => sensor'.serverInterval = toFloat(command)]_vars

\* a push fired 3 s after start, which only the interval set to 0.05 minutes
\* by command makes due
C15_Witness ==
    /\ sensor.serverInterval = Flt(5000)
    /\ Len(sensor.publishedAt) = 1
    /\ sensor.publishedAt[1].by = "loop"
    /\ sensor.publishedAt[1].at = SensorStep
    /\ sensor.lastServerTime = SensorStep

\* ----- C16 --------------------------------------------------------------------
SampleDue ==
    sensor.millis - sensor.lastDisplayTime
        >= Milliseconds(sensor.displayInterval)

\* C16: on every pass of the loop where the time since the last sample has
\* reached the display interval the sensors are read and the last-sample time
\* becomes the tick time, and on every other pass neither happens, whatever
\* the push phase does in that pass and whatever became of earlier pushes
C16_SamplePhaseIndependent ==
    [][SensorLoop =>
        IF SampleDue
        THEN /\ sensor'.lastDisplayTime = sensor.millis
             /\ sensor'.valuesReadAt = sensor.millis
        ELSE /\ sensor'.lastDisplayTime = sensor.lastDisplayTime
             /\ sensor'.valuesReadAt = sensor.valuesReadAt]_vars

\* a pass in which both phases fired and the push failed
C16_Witness ==
    /\ Len(sensor.publishedAt) = 1
    /\ ~sensor.publishedAt[1].ok
    /\ sensor.publishedAt[1].by = "loop"
    /\ sensor.publishedAt[1].at = sensor.millis
    /\ sensor.lastDisplayTime = sensor.millis
    /\ sensor.valuesReadAt = sensor.millis
    /\ sensor.lastServerTime = sensor.millis

\* ----- C17 --------------------------------------------------------------------
\* C17: every push made by the loop publishes values that were read in the
\* same pass of the loop, never values read in an earlier pass
C17_PushIsFresh ==
    \A i \in 1..Len(sensor.publishedAt) :
        sensor.publishedAt[i].by = "loop"
            => sensor.publishedAt[i].readAt = sensor.publishedAt[i].at

\* ----- C18 --------------------------------------------------------------------
\* a status that is not a 2xx
Failed(h) == h < 200 \/ h > 299

\* the push condition of loop() at this instant
PushConditionHolds ==
    \E period \in PushPeriods(serverIntervalCfg.current_value) :
        now - lastServerPush >= period

\* the scheduled push of the loop thread finishes in this step
ScheduledPushEnds == pc["loop"] = "count" /\ pc'["loop"] # "count"

\* C18: a scheduled push that failed adds exactly one to send_fail_count,
\* publishes its error once and leaves the loop idle without a second
\* transmission; the loop starts its next push only in a pass whose push
\* condition holds, which stamps the last-push time; and nothing else moves
\* send_fail_count
C18_FailedPushCountedOnce ==
    /\ [][(ScheduledPushEnds /\ Failed(local["loop"].httpStatus)) =>
            /\ sendFailCount' = sendFailCount + 1
            /\ sendSuccessCount' = sendSuccessCount
            /\ published' = Append(published, "scheduled_error")
            /\ attempts' = attempts
            /\ pc'["loop"] = "idle"
            /\ sendMutex' = "free"]_vars
    /\ [][sendFailCount' # sendFailCount =>
            \E t \in Threads :
                /\ pc[t] = "count" /\ pc'[t] = "idle"
                /\ Failed(local[t].httpStatus)]_vars
    /\ [][(pc["loop"] = "idle" /\ pc'["loop"] # "idle") =>
            /\ PushConditionHolds
            /\ pc'["loop"] = "lock"
            /\ lastServerPush' = now
            /\ attempts' = attempts]_vars

\* after a scheduled push that failed and was counted, a later pass finds
\* the push due and starts the next attempt
C18_Witness ==
    /\ sendFailCount = 1
    /\ published = <<"scheduled_error">>
    /\ Len(attempts) = 1
    /\ pc["loop"] = "lock"
    /\ lastServerPush = now
    /\ now > StartTime + MaxTime

\* ----- C19 --------------------------------------------------------------------
\* C19: once the process has booted, and so after every completed set
\* command, the record in the EEPROM holds the current value of the display
\* interval and of the server interval; and a set command leaves the
\* persisted boot_count as it was
C19_PersistedMatchesMemory ==
    /\ [](Booted =>
            /\ eeprom.display_interval = displayIntervalCfg.current_value
            /\ eeprom.server_interval = serverIntervalCfg.current_value
            /\ persistent = eeprom)
    /\ [][(SetDisplay \/ SetServer) =>
            /\ eeprom'.boot_count = eeprom.boot_count
            /\ persistent'.boot_count = persistent.boot_count]_vars

\* a set of the server interval to 2.5 minutes has completed on a device
\* that booted from a zeroed record
C19_Witness ==
    /\ call.op = "set_server_interval"
    /\ serverIntervalCfg.last_changed_source = "Cloud/UI"
    /\ eeprom.server_interval = Flt(250000)
    /\ eeprom.display_interval = Flt(DefaultDisplay)
    /\ eeprom.boot_count = U32(0, 1)

PushSetDisplay == \E minutes \in StoreInputs : SetDisplayInterval(minutes)
PushSetServer == \E minutes \in StoreInputs : SetServerInterval(minutes)

NextPushSet ==
    \/ setup
    \/ LoopCheck
    \/ PushSetDisplay
    \/ PushSetServer
    \/ LockStep
    \/ ReadCounterStep
    \/ WriteCounterStep
    \/ ConnectStep
    \/ WaitTickStep
    \/ RespondStep
    \/ ReceiveStep
    \/ CountStep

SpecPushSet == Init /\ [][NextPushSet]_vars

\* ----- C21 --------------------------------------------------------------------
\* what a set command has no business with, besides the other parameter
PushState ==
    <<sendSuccessCount, sendFailCount, sampleCounter, lastServerPush>>

\* C21: a set command on the display interval leaves the server interval's
\* value, timestamp and source as they were, a set command on the server
\* interval leaves the display interval's, and neither changes a send
\* counter, the sample counter or the last-push time
C21_SetLeavesTheRest ==
    /\ [][PushSetDisplay =>
            /\ serverIntervalCfg' = serverIntervalCfg
            /\ PushState' = PushState]_vars
    /\ [][PushSetServer =>
            /\ displayIntervalCfg' = displayIntervalCfg
            /\ PushState' = PushState]_vars

\* a set of the display interval has changed it after a push was sampled,
\* sent and counted; the server interval is as initialisation left it
C21_Witness ==
    /\ call.op = "set_display_interval"
    /\ displayIntervalCfg.last_changed_source = "Cloud/UI"
    /\ displayIntervalCfg.current_value = call.arg
    /\ serverIntervalCfg.last_changed_source = "EEPROM"
    /\ sendSuccessCount + sendFailCount = 1
    /\ sampleCounter = 1
    /\ lastServerPush = StartTime

\* ----- C22 --------------------------------------------------------------------
\* a step of a push_now: it is entered, or the command thread moves on in it
PushNowStep ==
    /\ call'.op = "push_now"
    /\ pc'["cmd"] # pc["cmd"] \/ local'["cmd"] # local["cmd"]

\* C22: no step of a push_now changes the last-push time or either interval
\* parameter, so that the push condition the loop will evaluate is the same
\* after the step as before it; and the last-push time changes only in a
\* pass of the loop that finds the push due, which sets it to the tick time
C22_PushNowLeavesSchedule ==
    /\ [][PushNowStep =>
            /\ lastServerPush' = lastServerPush
            /\ displayIntervalCfg' = displayIntervalCfg
            /\ serverIntervalCfg' = serverIntervalCfg
            /\ PushConditionHolds' = PushConditionHolds]_vars
    /\ [][lastServerPush' # lastServerPush =>
            /\ pc["loop"] = "idle" /\ pc'["loop"] = "lock"
            /\ pc'["cmd"] = pc["cmd"]
            /\ PushConditionHolds
            /\ lastServerPush' = now]_vars

\* a push_now issued one push period after the scheduled push has returned,
\* and the last-push time is still that of the scheduled push
C22_Witness ==
    /\ call.op = "push_now"
    /\ call.at = StartTime + PushTick
    /\ pc["cmd"] = "idle"
    /\ res.status \in {"ok", "error"}
    /\ Len(published) = 2
    /\ lastServerPush = StartTime
    /\ serverIntervalCfg.current_value = Flt(1000000)
====
